---- MODULE Spec2Model ----
(***************************************************************************)
(* Document processing pipeline of the Invoice admin application:          *)
(* processDocument (src/src/lib/api/document/process.ts) and               *)
(* getDocumentPageCount (src/src/utils/pdf/pageCount.ts), run against the  *)
(* document_info table, the processing log, the storage collaborator and   *)
(* the extraction collaborator.                                            *)
(*                                                                         *)
(* Every `await` of the source is one step of a caller; what the code does *)
(* synchronously after an await (checks, throws, the catch entry) belongs  *)
(* to the same step.  Timestamps (processed_at, updated_at, processingTime)*)
(* are not modelled: no statement checked below reads them.                *)
(***************************************************************************)
EXTENDS Integers, Sequences, FiniteSets, TLC

(* ------------------------------ bounds --------------------------------- *)

\* Number of invocations (of either operation) a sequential behaviour starts.
MaxCalls == 3

\* Number of invocations of processDocument a concurrent behaviour starts.
MaxConcCalls == 2

(* ------------------------------ values --------------------------------- *)

\* SQL NULL / JS null in a text column or a text-valued local.
NULL == "<null>"

\* A page_count column without a stored count.  pageCount.ts:12 tests the
\* column for truthiness, which treats NULL and 0 alike.
NoCount == 0

\* Callers that may hold an invocation of processDocument.
Procs == {"a", "b"}

\* The caller of the sequential specification.
Main == "a"

\* documentId arguments: the empty string (falsy at process.ts:11) and a key.
DocIds == {"", "doc1"}

\* fileUrl arguments.
FileUrls == {"invoices/f1.pdf"}

\* What extractDocumentInfo can resolve to when it returns data: an object in
\* which an absent property is absent from the record's domain.
Infos ==
  { [vendorName |-> "Acme", invoiceNumber |-> "INV-1",
     invoiceDate |-> "15/01/2024", totalAmount |-> "100.00"],
    [vendorName |-> "Globex", invoiceNumber |-> "INV-2",
     invoiceDate |-> "", totalAmount |-> "250.00"],
    [vendorName |-> "Acme", invoiceNumber |-> "INV-3",
     invoiceDate |-> "not-a-date", totalAmount |-> "100.00"],
    [invoiceNumber |-> "INV-4"] }

\* extractDocumentInfo resolving to null.
NoData == [null |-> TRUE]

\* JS undefined: the value of an absent property.
UNDEFINED == "<undefined>"

\* Property read obj.k.
Get(obj, k) == IF k \in DOMAIN obj THEN obj[k] ELSE UNDEFINED

\* JS truthiness of a string, null or undefined.
Truthy(v) == v \notin {NULL, UNDEFINED, ""}

\* parseDate: a canonical date, or null for text it cannot read; never throws.
parseDate(s) ==
  CASE s = "15/01/2024" -> "2024-01-15"
    [] s = "2024-01-15" -> "2024-01-15"
    [] OTHER -> NULL

(* --------------------------- document_info ----------------------------- *)

Columns ==
  { "document_id", "vendor_name", "invoice_number", "invoice_date",
    "total_amount", "processing_status", "error_message", "page_count",
    "file_url" }

\* Column defaults of a freshly inserted row.
DefaultRow ==
  [c \in Columns |->
     CASE c = "processing_status" -> "pending"
       [] c = "page_count" -> NoCount
       [] OTHER -> NULL]

\* JSON body of an upsert: a property whose value is undefined is dropped.
JsonBody(obj) == [k \in {c \in DOMAIN obj : obj[c] # UNDEFINED} |-> obj[k]]

RowsOf(table, id) == {i \in DOMAIN table : table[i]["document_id"] = id}

\* A mutation of Upsert: on conflict the whole row is replaced, the columns the
\* payload leaves out falling back to their defaults.
UpsertReplaceRow(table, payload) ==
  IF RowsOf(table, payload["document_id"]) = {}
  THEN Append(table, [c \in Columns |->
                        IF c \in DOMAIN payload THEN payload[c] ELSE DefaultRow[c]])
  ELSE [i \in DOMAIN table |->
          IF i \in RowsOf(table, payload["document_id"])
          THEN [c \in Columns |->
                  IF c \in DOMAIN payload THEN payload[c] ELSE DefaultRow[c]]
          ELSE table[i]]

\* A mutation of Upsert: plain insert, no conflict handling.
UpsertInsertOnly(table, payload) ==
  Append(table, [c \in Columns |->
                   IF c \in DOMAIN payload THEN payload[c] ELSE DefaultRow[c]])

\* .upsert(payload, {onConflict: 'document_id', ignoreDuplicates: false}):
\* INSERT ... ON CONFLICT (document_id) DO UPDATE SET <the payload's columns>.
Upsert(table, payload) ==
  IF RowsOf(table, payload["document_id"]) = {}
  THEN Append(table, [c \in Columns |->
                        IF c \in DOMAIN payload THEN payload[c] ELSE DefaultRow[c]])
  ELSE [i \in DOMAIN table |->
          IF i \in RowsOf(table, payload["document_id"])
          THEN [c \in Columns |->
                  IF c \in DOMAIN payload THEN payload[c] ELSE table[i][c]]
          ELSE table[i]]

(* ------------------------------- state --------------------------------- *)

VARIABLES
  document_info,    \* the document_info table: a sequence of rows
  processing_logs,  \* the append-only processing log
  run,              \* run[p]: the activation of processDocument held by caller p
  pg,               \* the activation of getDocumentPageCount
  ncalls,           \* invocations started so far
  upserts,          \* history: the payloads of the upserts that took effect
  lastRet           \* caller whose invocation of processDocument ended last

vars == <<document_info, processing_logs, run, pg, ncalls, upserts, lastRet>>

NoResult == [kind |-> "none", success |-> FALSE, error |-> NULL]

NoCalls == [url |-> 0, extract |-> 0, upsert |-> 0, log |-> 0]

IdleRun ==
  [pc |-> "idle", documentId |-> NULL, fileUrl |-> NULL, publicUrl |-> NULL,
   extractedInfo |-> NoData, parsedDate |-> NULL, error |-> NULL,
   result |-> NoResult, calls |-> NoCalls, faults |-> {}, sites |-> {},
   overlapped |-> FALSE]

IdlePg ==
  [pc |-> "idle", documentId |-> NULL, fileUrl |-> NULL, stored |-> NoCount,
   contentLength |-> 0, estimatedPages |-> 0, returned |-> FALSE, ret |-> 0,
   faults |-> {}, persisted |-> FALSE]

Init ==
  /\ document_info = <<>>
  /\ processing_logs = <<>>
  /\ run = [p \in Procs |-> IdleRun]
  /\ pg = IdlePg
  /\ ncalls = 0
  /\ upserts = <<>>
  /\ lastRet = NULL

(* --------------------------- collaborators ----------------------------- *)

\* Messages of errors raised by collaborators.
LogFailure == "log write failed"
ExtractFailure == "extraction request failed"
DbErrorMessage == "db error"

\* logProcessing(entry) when it succeeds: one entry appended to the log.
logProcessing(logs, r, status, step, errorMessage) ==
  Append(logs, [document_id |-> r.documentId, status |-> status, step |-> step,
                error_message |-> errorMessage])

\* storage.from('documents').getPublicUrl(fileUrl) when it succeeds.
getPublicUrl(fileUrl) == "https://storage/documents/" \o fileUrl

(* ---------------------------- processDocument -------------------------- *)

\* Bookkeeping of an activation: one more call of kind k, made at call site s.
Called(r, k, s) == [r EXCEPT !.calls[k] = @ + 1, !.sites = @ \cup {s}]

\* A collaborator failed at call site s.
Fault(r, s) == [r EXCEPT !.faults = @ \cup {s}]

\* `throw new Error(msg)` inside the try block: control enters the catch block.
Thrown(r, msg) == [r EXCEPT !.pc = "catchLog", !.error = msg]

\* The invocation ends: the promise settles with res.
Settled(r, res) == [r EXCEPT !.pc = "idle", !.result = res]

\* Whether another invocation is in progress when caller p starts one.
Overlaps(p) == \E q \in Procs \ {p} : run[q].pc # "idle"

\* processDocument(documentId, fileUrl) is called; the input check runs.
Start(p, d, f) ==
  /\ run[p].pc = "idle"
  /\ ncalls' = ncalls + 1
  /\ run' = [q \in Procs |->
       IF q = p
       THEN IF ~Truthy(d)
            THEN Thrown([IdleRun EXCEPT !.documentId = d, !.fileUrl = f,
                                        !.overlapped = Overlaps(p)],
                        "Invalid document ID")
            ELSE [IdleRun EXCEPT !.documentId = d, !.fileUrl = f,
                                 !.overlapped = Overlaps(p), !.pc = "logStart"]
       ELSE IF run[q].pc # "idle" THEN [run[q] EXCEPT !.overlapped = TRUE]
            ELSE run[q]]
  /\ UNCHANGED <<document_info, processing_logs, pg, upserts, lastRet>>

\* await logProcessing({status: 'processing', ...})
LogStart(p) ==
  /\ run[p].pc = "logStart"
  /\ \/ /\ processing_logs' = logProcessing(processing_logs, run[p], "processing",
                                             "Starting document processing", NULL)
        /\ run' = [run EXCEPT ![p] =
             [Called(@, "log", "logStart") EXCEPT !.pc = "getUrl"]]
     \/ /\ processing_logs' = processing_logs
        /\ run' = [run EXCEPT ![p] =
             Thrown(Fault(Called(@, "log", "logStart"), "logStart"), LogFailure)]
  /\ UNCHANGED <<document_info, pg, ncalls, upserts, lastRet>>

\* await supabase.storage.from('documents').getPublicUrl(fileUrl)
GetUrl(p) ==
  /\ run[p].pc = "getUrl"
  /\ \/ run' = [run EXCEPT ![p] =
             [Called(@, "url", "getUrl") EXCEPT
                !.pc = "extract", !.publicUrl = getPublicUrl(run[p].fileUrl)]]
     \/ run' = [run EXCEPT ![p] =
             Thrown(Fault(Called(@, "url", "getUrl"), "getUrl"),
                    "Failed to get document URL")]
  /\ UNCHANGED <<document_info, processing_logs, pg, ncalls, upserts, lastRet>>

\* A mutation of OnNoData: the extraction call is made again.
OnNoDataRetry(r) == [r EXCEPT !.pc = "extract"]

\* if (!extractedInfo) throw new Error('Failed to extract document information')
OnNoData(r) == Thrown(r, "Failed to extract document information")

\* Parse and validate the date of the extracted record.
ValidateDate(r) ==
  LET d == Get(r.extractedInfo, "invoiceDate")
      parsed == IF Truthy(d) THEN parseDate(d) ELSE NULL
  IN IF Truthy(d) /\ ~Truthy(parsed)
     THEN Thrown(Fault(r, "date"), "Invalid date format: " \o d)
     ELSE [r EXCEPT !.pc = "upsertCompleted", !.parsedDate = parsed]

\* await extractDocumentInfo(publicUrl), then the checks up to the next await.
Extract(p) ==
  /\ run[p].pc = "extract"
  /\ \/ \E info \in Infos :
          run' = [run EXCEPT ![p] =
            ValidateDate([Called(@, "extract", "extract") EXCEPT
                            !.extractedInfo = info])]
     \/ run' = [run EXCEPT ![p] =
            OnNoData(Fault(Called(@, "extract", "extract"), "extractNoData"))]
     \/ run' = [run EXCEPT ![p] =
            Thrown(Fault(Called(@, "extract", "extract"), "extractThrow"),
                   ExtractFailure)]
  /\ UNCHANGED <<document_info, processing_logs, pg, ncalls, upserts, lastRet>>

\* The object handed to the 'completed' upsert.
CompletedPayload(r) ==
  JsonBody([document_id |-> r.documentId,
            vendor_name |-> Get(r.extractedInfo, "vendorName"),
            invoice_number |-> Get(r.extractedInfo, "invoiceNumber"),
            invoice_date |-> r.parsedDate,
            total_amount |-> Get(r.extractedInfo, "totalAmount"),
            processing_status |-> "completed",
            file_url |-> r.fileUrl])

\* await supabase.from('document_info').upsert({... 'completed' ...})
UpsertCompleted(p) ==
  /\ run[p].pc = "upsertCompleted"
  /\ \/ /\ document_info' = Upsert(document_info, CompletedPayload(run[p]))
        /\ upserts' = Append(upserts, CompletedPayload(run[p]))
        /\ run' = [run EXCEPT ![p] =
             [Called(@, "upsert", "upsertCompleted") EXCEPT !.pc = "logCompleted"]]
     \/ /\ UNCHANGED <<document_info, upserts>>
        /\ run' = [run EXCEPT ![p] =
             Thrown(Fault(Called(@, "upsert", "upsertCompleted"), "upsertCompleted"),
                    "Failed to save document information: " \o DbErrorMessage)]
  /\ UNCHANGED <<processing_logs, pg, ncalls, lastRet>>

\* await logProcessing({status: 'completed', ...}); return {success: true}
LogCompleted(p) ==
  /\ run[p].pc = "logCompleted"
  /\ \/ /\ processing_logs' = logProcessing(processing_logs, run[p], "completed",
                                             "Document processing completed", NULL)
        /\ run' = [run EXCEPT ![p] =
             Settled(Called(@, "log", "logCompleted"),
                     [kind |-> "returned", success |-> TRUE, error |-> UNDEFINED])]
        /\ lastRet' = p
     \/ /\ processing_logs' = processing_logs
        /\ run' = [run EXCEPT ![p] =
             Thrown(Fault(Called(@, "log", "logCompleted"), "logCompleted"),
                    LogFailure)]
        /\ lastRet' = lastRet
  /\ UNCHANGED <<document_info, pg, ncalls, upserts>>

\* catch: await logProcessing({status: 'error', ...}); a rejection here is
\* not caught by anything and rejects the promise of processDocument.
CatchLog(p) ==
  /\ run[p].pc = "catchLog"
  /\ \/ /\ processing_logs' = logProcessing(processing_logs, run[p], "error",
                                             "Document processing failed",
                                             run[p].error)
        /\ run' = [run EXCEPT ![p] =
             [Called(@, "log", "catchLog") EXCEPT !.pc = "catchUpsert"]]
        /\ lastRet' = lastRet
     \/ /\ processing_logs' = processing_logs
        /\ run' = [run EXCEPT ![p] =
             Settled(Fault(Called(@, "log", "catchLog"), "catchLog"),
                     [kind |-> "rejected", success |-> FALSE, error |-> LogFailure])]
        /\ lastRet' = p
  /\ UNCHANGED <<document_info, pg, ncalls, upserts>>

\* The object handed to the 'error' upsert.
ErrorPayload(r) ==
  JsonBody([document_id |-> r.documentId,
            processing_status |-> "error",
            error_message |-> r.error])

\* return {success: false, error: error.message || 'Failed to process document'}
FailureResult(r) ==
  [kind |-> "returned", success |-> FALSE,
   error |-> IF Truthy(r.error) THEN r.error ELSE "Failed to process document"]

\* catch: await supabase.from('document_info').upsert({... 'error' ...}), whose
\* result is not looked at; then the failure result is returned.
CatchUpsert(p) ==
  /\ run[p].pc = "catchUpsert"
  /\ \/ /\ document_info' = Upsert(document_info, ErrorPayload(run[p]))
        /\ upserts' = Append(upserts, ErrorPayload(run[p]))
        /\ run' = [run EXCEPT ![p] =
             Settled(Called(@, "upsert", "catchUpsert"), FailureResult(@))]
     \/ /\ UNCHANGED <<document_info, upserts>>
        /\ run' = [run EXCEPT ![p] =
             Settled(Fault(Called(@, "upsert", "catchUpsert"), "catchUpsert"),
                     FailureResult(@))]
  /\ lastRet' = p
  /\ UNCHANGED <<processing_logs, pg, ncalls>>

Step(p) ==
  \/ LogStart(p)
  \/ GetUrl(p)
  \/ Extract(p)
  \/ UpsertCompleted(p)
  \/ LogCompleted(p)
  \/ CatchLog(p)
  \/ CatchUpsert(p)

\* No invocation is in progress.
AllIdle == pg.pc = "idle" /\ \A p \in Procs : run[p].pc = "idle"

(* -------------------------- getDocumentPageCount ----------------------- *)

\* content-length headers of the HEAD response, as decimal digits; <<>> is a
\* missing header (headers.get returns null).
Headers ==
  { <<>>, <<0>>, <<1, 0, 2, 4, 0, 0>>, <<1, 0, 2, 4, 0, 1>>, <<2, 5, 0, 0, 0, 0>> }

\* parseInt of a string of decimal digits.
RECURSIVE parseInt(_)
parseInt(ds) ==
  IF Len(ds) = 0 THEN 0
  ELSE 10 * parseInt(SubSeq(ds, 1, Len(ds) - 1)) + ds[Len(ds)]

\* response.headers.get('content-length') || '0'
HeaderOrZero(h) == IF h = <<>> THEN <<0>> ELSE h

\* The bytes-per-page divisor, 100 * 1024.
BytesPerPage == 100 * 1024

Max(a, b) == IF a >= b THEN a ELSE b

\* Math.ceil(a / b) for a >= 0, b > 0.
Ceil(a, b) == (a + b - 1) \div b

\* A mutation of EstimatePages: rounds down and has no floor of one page.
EstimatePagesFloor(contentLength) == contentLength \div BytesPerPage

\* Math.max(1, Math.ceil(contentLength / (100 * 1024)))
EstimatePages(contentLength) == Max(1, Ceil(contentLength, BytesPerPage))

\* The function returns n.
PgReturn(g, n) == [g EXCEPT !.pc = "idle", !.returned = TRUE, !.ret = n]

\* catch (error) { return 1 }
PgCatch(g, s) == PgReturn([g EXCEPT !.faults = @ \cup {s}], 1)

\* getDocumentPageCount(documentId, fileUrl) is called.
PgStart(d, f) ==
  /\ AllIdle
  /\ ncalls < MaxCalls
  /\ ncalls' = ncalls + 1
  /\ pg' = [IdlePg EXCEPT !.pc = "select", !.documentId = d, !.fileUrl = f]
  /\ UNCHANGED <<document_info, processing_logs, run, upserts, lastRet>>

\* The page_count the table holds for documentId (NoCount without a row).
StoredCount(table, d) ==
  IF RowsOf(table, d) = {} THEN NoCount
  ELSE table[CHOOSE i \in RowsOf(table, d) : TRUE]["page_count"]

\* await ...select('page_count').eq('document_id', documentId).maybeSingle()
\* and the early return on a stored count.
PgSelect ==
  /\ pg.pc = "select"
  /\ \/ /\ Cardinality(RowsOf(document_info, pg.documentId)) <= 1
        /\ pg' = LET g == [pg EXCEPT !.stored = StoredCount(document_info, pg.documentId)]
                 IN IF g.stored # NoCount THEN PgReturn(g, g.stored)
                    ELSE [g EXCEPT !.pc = "getUrl"]
     \/ pg' = [pg EXCEPT !.pc = "getUrl", !.faults = @ \cup {"select"},
                         !.stored = StoredCount(document_info, pg.documentId)]
  /\ UNCHANGED <<document_info, processing_logs, run, ncalls, upserts, lastRet>>

\* await supabase.storage.from('documents').getPublicUrl(fileUrl)
PgGetUrl ==
  /\ pg.pc = "getUrl"
  /\ \/ pg' = [pg EXCEPT !.pc = "head"]
     \/ pg' = PgCatch(pg, "getUrl")
  /\ UNCHANGED <<document_info, processing_logs, run, ncalls, upserts, lastRet>>

\* await fetch(publicUrl, {method: 'HEAD'}) and the estimate.
PgHead ==
  /\ pg.pc = "head"
  /\ \/ \E h \in Headers :
          pg' = [pg EXCEPT
                   !.pc = "upsert",
                   !.contentLength = parseInt(HeaderOrZero(h)),
                   !.estimatedPages = EstimatePages(parseInt(HeaderOrZero(h)))]
     \/ pg' = PgCatch(pg, "head")
  /\ UNCHANGED <<document_info, processing_logs, run, ncalls, upserts, lastRet>>

\* The object handed to the page-count upsert.
PageCountPayload(g) ==
  [document_id |-> g.documentId, page_count |-> g.estimatedPages]

\* await supabase.from('document_info').upsert({page_count, ...}), whose result
\* is not looked at; then return estimatedPages.
PgUpsert ==
  /\ pg.pc = "upsert"
  /\ \/ /\ document_info' = Upsert(document_info, PageCountPayload(pg))
        /\ upserts' = Append(upserts, PageCountPayload(pg))
        /\ pg' = PgReturn([pg EXCEPT !.persisted = TRUE], pg.estimatedPages)
     \/ /\ UNCHANGED <<document_info, upserts>>
        /\ pg' = PgReturn([pg EXCEPT !.faults = @ \cup {"upsert"}], pg.estimatedPages)
  /\ UNCHANGED <<processing_logs, run, ncalls, lastRet>>

PgStep == PgSelect \/ PgGetUrl \/ PgHead \/ PgUpsert

\* One caller invoking getDocumentPageCount, each call awaited.
PgStartSeq == \E d \in DocIds \ {""}, f \in FileUrls : PgStart(d, f)

\* One caller invoking processDocument again and again, each call awaited.
StartSeq ==
  /\ AllIdle
  /\ ncalls < MaxCalls
  /\ \E d \in DocIds, f \in FileUrls : Start(Main, d, f)

\* Callers invoking processDocument without waiting for one another.
StartConc ==
  /\ ncalls < MaxConcCalls
  /\ \E p \in Procs, d \in DocIds, f \in FileUrls : Start(p, d, f)

Next == StartSeq \/ PgStartSeq \/ PgStep \/ \E p \in Procs : Step(p)

Spec == Init /\ [][Next]_vars

NextConc == StartConc \/ \E p \in Procs : Step(p)

SpecConc == Init /\ [][NextConc]_vars

(* ------------------------------ properties ----------------------------- *)

\* The invocation held by caller p has ended (returned or rejected).
Ended(p) == run[p].pc = "idle" /\ run[p].result.kind # "none"

\* The rows the table holds for document id d.
Rows(d) == {document_info[i] : i \in RowsOf(document_info, d)}

\* The row an insert of payload alone would create.
FullRow(payload) ==
  [c \in Columns |-> IF c \in DOMAIN payload THEN payload[c] ELSE DefaultRow[c]]

\* The call sites of logProcessing.
LogSites == {"logStart", "logCompleted", "catchLog"}

\* Log entries an invocation wrote: its log calls that did not fail.
EntriesWritten(r) ==
  r.calls.log - Cardinality(r.faults \cap LogSites)

\* C1: no exception escapes processDocument: whatever collaborators fail, an
\* invocation never ends by rejecting.
C1_NoExceptionEscapes == \A p \in Procs : run[p].result.kind # "rejected"

\* C2: called with an empty document id, processDocument calls no collaborator
\* at all and ends by returning {success: false}.
C2_EmptyIdCallsNothing ==
  \A p \in Procs :
    run[p].documentId = "" =>
      /\ run[p].calls = NoCalls
      /\ Ended(p) => run[p].result.kind = "returned" /\ ~run[p].result.success

\* C3: whenever an invocation has returned, the record of its document has the
\* terminal status of that invocation: 'completed' iff it returned success,
\* 'error' iff it returned failure.  Stated for the invocations with a
\* non-empty id whose log writes all succeeded, where it already fails.
C3_StatusReflectsLastOutcome ==
  (AllIdle /\ lastRet # NULL /\ run[lastRet].result.kind = "returned"
     /\ Truthy(run[lastRet].documentId)
     /\ run[lastRet].faults \cap LogSites = {}) =>
    /\ Rows(run[lastRet].documentId) # {}
    /\ \A row \in Rows(run[lastRet].documentId) :
         row["processing_status"] =
           IF run[lastRet].result.success THEN "completed" ELSE "error"

\* C4: with a non-empty id and every collaborator succeeding, processDocument
\* returns {success: true} and afterwards exactly one record exists for the id,
\* 'completed' and holding the extracted fields; no sequence of calls ever
\* leaves two records for one id.
C4_SuccessLeavesOneCompletedRecord ==
  /\ \A d \in DocIds : Cardinality(RowsOf(document_info, d)) <= 1
  /\ \A p \in Procs :
       (Ended(p) /\ Truthy(run[p].documentId) /\ run[p].faults = {}) =>
         run[p].result = [kind |-> "returned", success |-> TRUE, error |-> UNDEFINED]
  /\ (AllIdle /\ lastRet # NULL /\ Truthy(run[lastRet].documentId)
        /\ run[lastRet].faults = {}) =>
       LET r == run[lastRet]
           info == r.extractedInfo
       IN /\ Cardinality(RowsOf(document_info, r.documentId)) = 1
          /\ \A row \in Rows(r.documentId) :
               /\ row["processing_status"] = "completed"
               /\ "vendorName" \in DOMAIN info => row["vendor_name"] = info.vendorName
               /\ "invoiceNumber" \in DOMAIN info =>
                    row["invoice_number"] = info.invoiceNumber
               /\ "totalAmount" \in DOMAIN info =>
                    row["total_amount"] = info.totalAmount
               /\ row["invoice_date"] = r.parsedDate
               /\ Truthy(Get(info, "invoiceDate")) => Truthy(row["invoice_date"])
               /\ row["file_url"] = r.fileUrl

\* A second successful call for doc1 has returned and the table holds one row.
C4_Witness ==
  /\ AllIdle /\ lastRet # NULL
  /\ run[lastRet].documentId = "doc1" /\ run[lastRet].faults = {}
  /\ run[lastRet].result.success
  /\ Cardinality({i \in DOMAIN processing_logs :
                    processing_logs[i].status = "completed"
                    /\ processing_logs[i].document_id = "doc1"}) >= 2
  /\ Len(document_info) = 1

\* C5: when extraction returns no data, processDocument returns a failure and
\* the record of the document then has status 'error' and a non-empty message.
\* Stated for the invocations whose log writes all succeeded, where it already
\* fails.
C5_NoDataLeavesErrorRecord ==
  \A p \in Procs :
    (Ended(p) /\ "extractNoData" \in run[p].faults
       /\ run[p].faults \cap LogSites = {}) =>
      /\ run[p].result.kind = "returned" /\ ~run[p].result.success
      /\ Rows(run[p].documentId) # {}
      /\ \A row \in Rows(run[p].documentId) :
           row["processing_status"] = "error" /\ Truthy(row["error_message"])

\* C6: when the extracted date is non-empty and the parser rejects it,
\* processDocument returns a failure whose message carries the date text, and
\* the invocation makes neither the 'completed' upsert nor the 'completed' log.
C6_BadDateFailsWithoutCompleted ==
  \A p \in Procs :
    (Ended(p) /\ "date" \in run[p].faults) =>
      /\ run[p].result =
           [kind |-> "returned", success |-> FALSE,
            error |-> "Invalid date format: " \o Get(run[p].extractedInfo, "invoiceDate")]
      /\ run[p].sites \cap {"upsertCompleted", "logCompleted"} = {}

\* The value column c of document d has after the upserts in history h: that of
\* the latest payload for d that supplies c, the default when none does.
RECURSIVE LatestFor(_, _, _)
LatestFor(h, d, c) ==
  IF Len(h) = 0 THEN DefaultRow[c]
  ELSE IF h[Len(h)]["document_id"] = d /\ c \in DOMAIN h[Len(h)]
       THEN h[Len(h)][c]
       ELSE LatestFor(SubSeq(h, 1, Len(h) - 1), d, c)

ExpectedPages(n) ==
  CHOOSE k \in 1..(n \div 102400 + 1) :
    k * 102400 >= n /\ (k = 1 \/ (k - 1) * 102400 < n)

\* C8 (amended): getDocumentPageCount returns a positive integer: the stored
\* count when the lookup succeeds and finds one; 1 when URL resolution or the
\* size probe fails; otherwise, also when the lookup reported an error or
\* persisting fails, max(1, ceil(contentLength / 102400)), which is the stored
\* count afterwards when the upsert took effect.
C8_PageCountAmended ==
  pg.returned =>
    /\ pg.ret >= 1
    /\ IF "select" \notin pg.faults /\ pg.stored # NoCount
       THEN pg.ret = pg.stored /\ pg.faults = {}
       ELSE IF pg.faults \cap {"getUrl", "head"} # {}
       THEN pg.ret = 1
       ELSE /\ pg.ret = ExpectedPages(pg.contentLength)
            /\ pg.contentLength = 250000 => pg.ret = 3
            /\ pg.persisted <=> "upsert" \notin pg.faults
            /\ pg.persisted => StoredCount(document_info, pg.documentId) = pg.ret

\* The lookup reported an error although a count was stored, and the call
\* returned the estimate for 250,000 bytes.
C8_Witness ==
  /\ pg.returned /\ "select" \in pg.faults /\ pg.stored # NoCount
  /\ pg.contentLength = 250000 /\ pg.ret = 3

\* C8 (as stated): the stored count when one exists, else the persisted
\* estimate, and 1 whenever any step of the path fails.
C8_OneOnAnyFailure ==
  pg.returned =>
    /\ pg.ret >= 1
    /\ pg.faults # {} => pg.ret = 1
    /\ (pg.faults = {} /\ pg.stored # NoCount) => pg.ret = pg.stored
    /\ (pg.faults = {} /\ pg.stored = NoCount) =>
         /\ pg.ret = ExpectedPages(pg.contentLength)
         /\ StoredCount(document_info, pg.documentId) = pg.ret

\* C9 (amended): an invocation makes at most one URL resolution call, at most
\* one extraction call, at most two upserts and at most three logProcessing
\* calls, writing at most two log entries; one that returns success made exactly
\* one URL resolution, one extraction, one upsert and two log calls; one that
\* returns failure made one or two upserts and at least one log call.
C9_CallCountsAmended ==
  \A p \in Procs :
    /\ run[p].calls.url <= 1 /\ run[p].calls.extract <= 1
    /\ run[p].calls.upsert <= 2 /\ run[p].calls.log <= 3
    /\ EntriesWritten(run[p]) <= 2
    /\ (Ended(p) /\ run[p].result.kind = "returned" /\ run[p].result.success) =>
         run[p].calls = [url |-> 1, extract |-> 1, upsert |-> 1, log |-> 2]
    /\ (Ended(p) /\ run[p].result.kind = "returned" /\ ~run[p].result.success) =>
         run[p].calls.upsert \in 1..2 /\ run[p].calls.log \in 1..3

\* An invocation returned after two upserts and three log calls.
C9_Witness ==
  \E p \in Procs :
    /\ Ended(p) /\ run[p].result.kind = "returned"
    /\ run[p].calls = [url |-> 1, extract |-> 1, upsert |-> 2, log |-> 3]

\* C9 (as stated): every invocation makes exactly one URL resolution call and
\* exactly one extraction call, one or two upserts and one or two log entries.
\* Stated for the invocations that return, where it already fails.
C9_ExactlyOneUrlAndExtraction ==
  \A p \in Procs :
    (Ended(p) /\ run[p].result.kind = "returned") =>
      /\ run[p].calls.url = 1 /\ run[p].calls.extract = 1
      /\ run[p].calls.upsert \in 1..2
      /\ EntriesWritten(run[p]) \in 1..2

\* C10: the 'completed' upsert overwrites every field, so a 'completed' record
\* never carries an error message, and after a successful invocation the record
\* holds only what that invocation wrote (page_count aside, which
\* getDocumentPageCount owns); the 'error' upsert supplies no extracted field.
\* The first part is stated for error messages other than that of a failed
\* log write, where it already fails.
C10_CompletedOverwritesAllFields ==
  /\ \A d \in DocIds : \A row \in Rows(d) :
       row["processing_status"] = "completed" =>
         row["error_message"] \in {NULL, LogFailure}
  /\ (AllIdle /\ lastRet # NULL /\ run[lastRet].result.success) =>
       \A row \in Rows(run[lastRet].documentId) :
         \A c \in Columns \ {"page_count"} :
           row[c] = FullRow(CompletedPayload(run[lastRet]))[c]
  /\ \A p \in Procs :
       DOMAIN ErrorPayload(run[p]) \cap
         {"vendor_name", "invoice_number", "invoice_date", "total_amount"} = {}

====
